---- MODULE Spec2Model ----
(***************************************************************************)
(* zpp::allocator<std::byte> (src/zpp_allocator.h): an intrusive           *)
(* first-fit free-list allocator over one caller-supplied buffer.          *)
(*                                                                         *)
(* The buffer is modelled as raw memory, one cell per 8-byte word, so that *)
(* the block headers and the free-sublist link fields live in the same     *)
(* cells as they do in the program: a node is the words                    *)
(*    +0 m_next   +8 m_prev   +16 m_size   (+24 padding)                   *)
(*    +32 m_next_free   +40 m_prev_free                                    *)
(* and a header is the first 32 bytes of it.  Pointers are byte addresses, *)
(* null is 0, and size_t / pointer arithmetic wraps modulo SizeMod.        *)
(***************************************************************************)
EXTENDS Integers, Sequences, FiniteSets, TLC

----------------------------------------------------------------------------
(* Bounds of the model. *)

\* The adjusted region of the main specifications is RegionUnits * Align bytes.
RegionUnits == 9

\* The lowest modelled address is BaseUnits * Align: never 0 (0 is null), and
\* away from every block size and from the top of the size type, as the
\* addresses of a real buffer are, so that a size read as a pointer is not an
\* address of the buffer.
BaseUnits == 128

\* Requests of the main specifications are the sizes 1, Align, ...,
\* ReqSteps * Align, plus the request that takes the whole region.
ReqSteps == 2

\* Requests within WrapSpan of the top of the size type (SpecWrap only).
WrapSpan == 48

\* Calls made in the specifications that count them (SpecZero, SpecCtor).
MaxCalls == 6

\* Calls made in SpecWrap.
MaxWrapCalls == 3

\* Buffer lengths 0 .. MaxSmallLen handed to the constructor (SpecCtor and
\* SpecContains).
MaxSmallLen == 64

----------------------------------------------------------------------------
(* The platform: an LP64 ABI, with the width of std::size_t scaled down. *)

SizeBits == 12
SizeMod == 2 ^ SizeBits
WordSize == 8
Align == 16
HeaderSize == 32
NodeSize == 48

OffNext == 0
OffPrev == 8
OffSize == 16
OffNextFree == 32
OffPrevFree == 40

\* Unsigned arithmetic of the size type and of pointers.
Mod(x) == x % SizeMod

\* A word nobody has written yet (indeterminate content).
Uninit == -1

----------------------------------------------------------------------------
(* Raw memory. *)

MemLo == BaseUnits * Align
MemHi == MemLo + WordSize + RegionUnits * Align + NodeSize
Addrs == {a \in MemLo .. (MemHi - WordSize) : a % WordSize = 0}

\* A list state L is [mem, first_free, allocated, status]; status is "ok",
\* "fault" (an access outside the modelled memory) or "hang" (a walk that
\* never ends).
InMem(a) == MemLo <= a /\ a < MemHi /\ a % WordSize = 0

Rd(L, a) == IF InMem(a) THEN L.mem[a] ELSE Uninit

Wr(L, a, v) ==
    IF InMem(a)
    THEN [L EXCEPT !.mem[a] = v]
    ELSE [L EXCEPT !.status = "fault"]

Field(L, p, off) == Rd(L, Mod(p + off))

SetField(L, p, off, v) == Wr(L, Mod(p + off), v)

----------------------------------------------------------------------------
(* list::node and list::node::header. *)

\* header::size(): the stored size with the state bit masked off.
size(L, p) == LET s == Field(L, p, OffSize) IN s - (s % 2)

\* header::is_free(): the low bit of the stored size is 0.
is_free(L, p) == Field(L, p, OffSize) % 2 = 0

\* header::data_size(): size() - sizeof(header), in the size type.
data_size(L, h) == Mod(size(L, h) - HeaderSize)

\* header::data() and header::from_data().
data(h) == Mod(h + HeaderSize)

from_data(pointer) == Mod(pointer - HeaderSize)

set_free(L, p) ==
    LET s == Field(L, p, OffSize) IN SetField(L, p, OffSize, s - (s % 2))

set_allocated(L, p) ==
    LET s == Field(L, p, OffSize) IN SetField(L, p, OffSize, s - (s % 2) + 1)

\* node::alignment(size): the padding that rounds size up to alignof(node).
alignment(sz) == Mod(Mod((Mod(sz + Align - 1) \div Align) * Align) - sz)

\* node::node(std::size_t): every member value-initialised, then m_size set.
node_ctor(L, a, sz) ==
    LET L1 == SetField(L, a, OffNext, 0)
        L2 == SetField(L1, a, OffPrev, 0)
        L3 == SetField(L2, a, OffSize, sz)
        L4 == SetField(L3, a, OffNextFree, 0)
    IN  SetField(L4, a, OffPrevFree, 0)

\* node::node(const header &, launder): the header is copied onto itself and
\* the two free-sublist links are value-initialised.
node_from_header(L, h) ==
    LET L1 == SetField(L, h, OffNextFree, 0)
    IN  SetField(L1, h, OffPrevFree, 0)

\* The statement forms the list code is written in.  Each takes the memory
\* before the statement and gives the memory after it.

\* dst->doff = src->soff;
CopyField(L, dst, doff, src, soff) ==
    SetField(L, dst, doff, Field(L, src, soff))

\* if (this->via) { this->via->off = v; }
SetVia(L, this, via, off, v) ==
    IF Field(L, this, via) # 0
    THEN SetField(L, Field(L, this, via), off, v)
    ELSE L

\* if (this->via) { this->via->off = this->from; }
CopyVia(L, this, via, off, from) ==
    IF Field(L, this, via) # 0
    THEN SetField(L, Field(L, this, via), off, Field(L, this, from))
    ELSE L

append_to_list(L, this, p) ==
    LET L1 == SetVia(L, this, OffNext, OffPrev, p)
        L2 == CopyField(L1, p, OffNext, this, OffNext)
        L3 == SetField(L2, p, OffPrev, this)
    IN  SetField(L3, this, OffNext, p)

unlink_from_list(L, this) ==
    LET L1 == CopyVia(L, this, OffPrev, OffNext, OffNext)
    IN  CopyVia(L1, this, OffNext, OffPrev, OffPrev)

unlink_from_freelist(L, this) ==
    LET L1 == CopyVia(L, this, OffPrevFree, OffNextFree, OffNextFree)
        L2 == CopyVia(L1, this, OffNextFree, OffPrevFree, OffPrevFree)
    IN  set_allocated(L2, this)

\* (mutant) merge_next that forgets to add the size of the merged block.
add_next_free_size_Dropped(L, this) == L

\* m_header.m_size += m_next_free->m_header.m_size;
add_next_free_size(L, this) ==
    SetField(L, this, OffSize,
             Mod(Field(L, this, OffSize)
                 + Field(L, Field(L, this, OffNextFree), OffSize)))

\* m_next_free->unlink_from_freelist();
unlink_next_free(L, this) ==
    unlink_from_freelist(L, Field(L, this, OffNextFree))

\* assume_free(m_header.m_next)->unlink_from_list();
unlink_next(L, this) == unlink_from_list(L, Field(L, this, OffNext))

merge_next(L, this) ==
    LET L1 == add_next_free_size(L, this)
        L2 == unlink_next_free(L1, this)
    IN  unlink_next(L2, this)

\* The first if of merge(): the next free node starts where this one ends.
merge_forward(L, this) ==
    IF /\ Field(L, this, OffNextFree) # 0
       /\ Mod(this + Field(L, this, OffSize)) = Field(L, this, OffNextFree)
    THEN merge_next(L, this)
    ELSE L

\* The second if of merge(): the previous free node ends where this starts.
merge_backward(L, this) ==
    IF /\ Field(L, this, OffPrevFree) # 0
       /\ Mod(Field(L, this, OffPrevFree)
              + Field(L, Field(L, this, OffPrevFree), OffSize)) = this
    THEN merge_next(L, Field(L, this, OffPrevFree))
    ELSE L

merge(L, this) == merge_backward(merge_forward(L, this), this)

append_to_freelist(L, this, p) ==
    LET L1 == SetVia(L, this, OffNextFree, OffPrevFree, p)
        L2 == CopyField(L1, p, OffNextFree, this, OffNextFree)
        L3 == SetField(L2, p, OffPrevFree, this)
        L4 == SetField(L3, this, OffNextFree, p)
        L5 == set_free(L4, p)
    IN  merge(L5, p)

prepend_to_freelist(L, this, p) ==
    LET L1 == SetVia(L, this, OffPrevFree, OffNextFree, p)
        L2 == CopyField(L1, p, OffPrevFree, this, OffPrevFree)
        L3 == SetField(L2, p, OffNextFree, this)
        L4 == SetField(L3, this, OffPrevFree, p)
        L5 == set_free(L4, p)
    IN  merge(L5, p)

\* split(size): the new node is built at address() + size from the size read
\* before it is built, linked into both lists, and then this node shrinks.
split(L, this, sz) ==
    LET L1 == node_ctor(L, Mod(this + sz), Mod(Field(L, this, OffSize) - sz))
        L2 == append_to_list(L1, this, Mod(this + sz))
        L3 == append_to_freelist(L2, this, Mod(this + sz))
    IN  SetField(L3, this, OffSize, sz)

----------------------------------------------------------------------------
(* list. *)

\* Outcomes of a walk that are not a node address.
Hang == -2
Wild == -3

\* Whether the words of a header (of a whole node) at p are modelled memory.
HeaderIn(p) == InMem(p) /\ InMem(p + OffSize)

NodeIn(p) == HeaderIn(p) /\ InMem(p + OffPrevFree)

\* The loop of list::allocate: the first node of the free sublist, from p on,
\* whose size() is at least need; 0 when the walk reaches null.  Memory does
\* not change during the walk, so reaching a node a second time means the loop
\* never ends.
RECURSIVE first_fit(_, _, _, _)
first_fit(L, p, need, seen) ==
    IF p = 0 THEN 0
    ELSE IF p \in seen THEN Hang
    ELSE IF ~NodeIn(p) THEN Wild
    ELSE IF size(L, p) >= need THEN p
    ELSE first_fit(L, Field(L, p, OffNextFree), need, seen \cup {p})

\* The loop of list::deallocate: the nearest header at or before p, following
\* m_prev, with is_free(); 0 when the walk reaches null.
RECURSIVE prev_free_header(_, _, _)
prev_free_header(L, p, seen) ==
    IF p = 0 THEN 0
    ELSE IF p \in seen THEN Hang
    ELSE IF ~HeaderIn(p) THEN Wild
    ELSE IF is_free(L, p) THEN p
    ELSE prev_free_header(L, Field(L, p, OffPrev), seen \cup {p})

Stop(L, why) == [L EXCEPT !.status = IF why = Hang THEN "hang" ELSE "fault"]

\* list::list(span): one node over the whole span, first on both lists.
list_ctor(L, memory_data, memory_size) ==
    [node_ctor(L, memory_data, memory_size) EXCEPT !.first_free = memory_data]

\* The size list::allocate searches for: the request plus the header, padded.
need_of(requested) ==
    Mod(Mod(requested + HeaderSize) + alignment(Mod(requested + HeaderSize)))

\* if (p->size() - size >= sizeof(node)) { p->split(size); }
split_if_room(L, p, need) ==
    IF size(L, p) - need >= NodeSize THEN split(L, p, need) ELSE L

\* if (p == m_first_free) { m_first_free = p->next_free(); }
advance_first_free(L, p) ==
    IF p = L.first_free
    THEN [L EXCEPT !.first_free = Field(L, p, OffNextFree)]
    ELSE L

\* m_allocated += p->size();
count_allocation(L, p) == [L EXCEPT !.allocated = Mod(@ + size(L, p))]

\* m_allocated -= node->size();
count_deallocation(L, h) == [L EXCEPT !.allocated = Mod(@ - size(L, h))]

\* The body of the loop of list::allocate once p fits.
allocate_at(L, p, need) ==
    LET L1 == split_if_room(L, p, need)
        L2 == unlink_from_freelist(L1, p)
        L3 == advance_first_free(L2, p)
    IN  count_allocation(L3, p)

\* What list::allocate does with the outcome p of its walk.
allocate_found(L, p, need) ==
    IF p = 0 THEN [L |-> L, ret |-> 0]
    ELSE IF p < 0 THEN [L |-> Stop(L, p), ret |-> 0]
    ELSE [L |-> allocate_at(L, p, need), ret |-> p]

\* list::allocate(size): [L |-> the list afterwards, ret |-> header or 0].
list_allocate(L, requested) ==
    allocate_found(L, first_fit(L, L.first_free, need_of(requested), {}),
                   need_of(requested))

\* The else branch of list::deallocate: the free sublist is empty.
only_free_node(L, h) ==
    SetField(SetField(L, h, OffNextFree, 0), h, OffPrevFree, 0)

\* list::deallocate after its walk found no free header before h.
make_first_free(L, h) ==
    [(IF L.first_free # 0
      THEN prepend_to_freelist(L, L.first_free, h)
      ELSE only_free_node(L, h))
     EXCEPT !.first_free = h]

\* What list::deallocate does with the outcome p of its walk.
deallocate_found(L, h, p) ==
    IF p < 0 THEN Stop(L, p)
    ELSE IF p # 0 THEN append_to_freelist(L, p, h)
    ELSE make_first_free(L, h)

\* list::deallocate after the node is rebuilt and the bytes are counted.
deallocate_node(L, h) ==
    deallocate_found(L, h, prev_free_header(L, Field(L, h, OffPrev), {}))

\* list::deallocate(h, size): the list afterwards.
list_deallocate(L, h) ==
    deallocate_node(count_deallocation(node_from_header(L, h), h), h)

\* list::allocation_size(header).
list_allocation_size(L, h) == data_size(L, h)

----------------------------------------------------------------------------
(* allocator<std::byte>. *)

\* allocator::allocator(memory, size): the span m_memory, adjusted.
span_data(memory) == Mod(memory + alignment(memory))

span_size(memory, sz) == Mod(sz - alignment(memory))

EmptyList ==
    [mem |-> [a \in Addrs |-> Uninit], first_free |-> 0, allocated |-> 0,
     status |-> "ok"]

allocator_ctor(memory, sz) ==
    list_ctor(EmptyList, span_data(memory), span_size(memory, sz))

\* allocator::allocate(size): the payload pointer, or 0.
payload_of(r) == [L |-> r.L, ret |-> IF r.ret = 0 THEN 0 ELSE data(r.ret)]

allocator_allocate(L, requested) == payload_of(list_allocate(L, requested))

\* allocator::deallocate(pointer, size).
allocator_deallocate(L, pointer) ==
    IF pointer = 0 THEN L ELSE list_deallocate(L, from_data(pointer))

\* allocator::allocation_size(pointer).
allocation_size(L, pointer) == list_allocation_size(L, from_data(pointer))

\* span::front() and span::back(), as addresses.
front(sp_data, sp_size) == sp_data

\* (mutant) back() as the last element instead of one past it.
back_LastElement(sp_data, sp_size) == Mod(sp_data + sp_size - 1)

back(sp_data, sp_size) == Mod(sp_data + sp_size)

\* allocator::contains(address).
contains(sp_data, sp_size, address) ==
    front(sp_data, sp_size) <= address /\ address < back(sp_data, sp_size)

----------------------------------------------------------------------------
(* The program state. *)

VARIABLES
    mem,          \* the raw memory, word address -> value
    m_first_free, \* list::m_first_free
    m_allocated,  \* list::m_allocated
    status,       \* "ok", "fault" or "hang"
    m_data,       \* m_memory.m_data (also list::m_first)
    m_size,       \* m_memory.m_size
    buf,          \* the buffer the caller passed: [base, len]
    live,         \* payload pointers the callers hold
    op,           \* the last call: [kind, arg, ret, dup]
    calls         \* calls made so far (counted where a specification bounds them)

vars ==
    <<mem, m_first_free, m_allocated, status, m_data, m_size, buf, live, op,
      calls>>

Cur ==
    [mem |-> mem, first_free |-> m_first_free, allocated |-> m_allocated,
     status |-> status]

Install(L) ==
    /\ mem' = L.mem
    /\ m_first_free' = L.first_free
    /\ m_allocated' = L.allocated
    /\ status' = L.status

RegionLen == RegionUnits * Align

\* Construction over the buffer [base, base + len).
Constructed(L) ==
    /\ mem = L.mem
    /\ m_first_free = L.first_free
    /\ m_allocated = L.allocated
    /\ status = L.status

Construct(base, len) ==
        /\ Constructed(allocator_ctor(base, len))
        /\ m_data = span_data(base)
        /\ m_size = span_size(base, len)
        /\ buf = [base |-> base, len |-> len]
        /\ live = {}
        /\ op = [kind |-> "construct", arg |-> len, ret |-> 0, dup |-> FALSE]
        /\ calls = 0

\* An aligned and an unaligned buffer whose adjusted length is RegionLen.
Init ==
    \/ Construct(MemLo, RegionLen)
    \/ Construct(MemLo + WordSize, RegionLen + WordSize)

\* What the caller may do with the pointer it got: write all of the capacity
\* allocation_size reports for it.
FillPayload(L, pointer) ==
    LET cap == allocation_size(L, pointer)
    IN  [L EXCEPT !.mem =
            [a \in Addrs |->
                IF pointer <= a /\ a + WordSize <= pointer + cap
                THEN Uninit
                ELSE L.mem[a]]]

\* The caller's part of an allocate call.
after_allocate(r, fill) ==
    IF fill /\ r.ret # 0 /\ r.L.status = "ok"
    THEN [r EXCEPT !.L = FillPayload(r.L, r.ret)]
    ELSE r

Returned(r, n) ==
    /\ Install(r.L)
    /\ live' = IF r.ret = 0 THEN live ELSE live \cup {r.ret}
    /\ op' = [kind |-> "allocate", arg |-> n, ret |-> r.ret,
              dup |-> r.ret \in live]

\* allocate(n); with fill the caller then writes its payload.
Allocate(n, fill) ==
    /\ status = "ok"
    /\ Returned(after_allocate(allocator_allocate(Cur, n), fill), n)
    /\ UNCHANGED <<m_data, m_size, buf>>

Deallocate(pointer) ==
    /\ status = "ok"
    /\ pointer \in live \cup {0}
    /\ Install(allocator_deallocate(Cur, pointer))
    /\ live' = live \ {pointer}
    /\ op' = [kind |-> "deallocate", arg |-> pointer, ret |-> 0, dup |-> FALSE]
    /\ UNCHANGED <<m_data, m_size, buf>>

\* Requests of the main specification: 1, whole multiples of Align, and the
\* request that needs the whole region.
ReqSizes ==
    {1} \cup {k * Align : k \in 1 .. ReqSteps} \cup {RegionLen - HeaderSize}

AllocateSome == \E n \in ReqSizes, fill \in BOOLEAN : Allocate(n, fill)

DeallocateSome == \E pointer \in live \cup {0} : Deallocate(pointer)

Next ==
    \/ AllocateSome /\ UNCHANGED calls
    \/ DeallocateSome /\ UNCHANGED calls

Spec == Init /\ [][Next]_vars

\* The same with requests of size 0 as well, and at most MaxCalls calls.
Counted(max) == calls < max /\ calls' = calls + 1

AllocateZero == \E fill \in BOOLEAN : Allocate(0, fill)

NextZero ==
    \/ AllocateSome /\ Counted(MaxCalls)
    \/ AllocateZero /\ Counted(MaxCalls)
    \/ DeallocateSome /\ Counted(MaxCalls)

SpecZero == Init /\ [][NextZero]_vars

\* The same with requests so large that size + sizeof(header) wraps, and at
\* most MaxWrapCalls calls.
WrapSizes == {SizeMod - k : k \in 1 .. WrapSpan}

AllocateWrap == \E n \in WrapSizes, fill \in BOOLEAN : Allocate(n, fill)

NextWrap ==
    \/ AllocateSome /\ Counted(MaxWrapCalls)
    \/ AllocateWrap /\ Counted(MaxWrapCalls)
    \/ DeallocateSome /\ Counted(MaxWrapCalls)

SpecWrap == Init /\ [][NextWrap]_vars

\* Construction over any small buffer, aligned or not, then the same calls.
AnyBases == {MemLo, MemLo + WordSize}

InitCtor == \E base \in AnyBases, len \in 0 .. MaxSmallLen : Construct(base, len)

SpecCtor == InitCtor /\ [][NextZero]_vars

\* contains(address), for every byte address around the buffer, over every
\* short buffer (those shorter than their alignment adjustment included) and
\* the full-length one.
Contains(address) ==
    /\ op' = [kind |-> "contains", arg |-> address,
              ret |-> IF contains(m_data, m_size, address) THEN 1 ELSE 0,
              dup |-> FALSE]
    /\ UNCHANGED <<mem, m_first_free, m_allocated, status, m_data, m_size,
                   buf, live, calls>>

InitContains ==
    \E base \in AnyBases, len \in (0 .. MaxSmallLen) \cup {RegionLen + WordSize} :
        Construct(base, len)

NextContains == \E address \in (MemLo - 1) .. (MemHi + 1) : Contains(address)

SpecContains == InitContains /\ [][NextContains]_vars

----------------------------------------------------------------------------
(* Views of the two lists, as the program would walk them. *)

\* The headers reached from h through m_next, in order, up to null (or up to
\* a header already seen, or a pointer out of the modelled memory).
RECURSIVE block_walk(_, _, _)
block_walk(L, h, acc) ==
    IF h = 0 \/ ~HeaderIn(h) \/ (\E i \in 1 .. Len(acc) : acc[i] = h)
    THEN acc
    ELSE block_walk(L, Field(L, h, OffNext), Append(acc, h))

\* The nodes reached from p through m_next_free, in order.
RECURSIVE free_walk(_, _, _)
free_walk(L, p, acc) ==
    IF p = 0 \/ ~NodeIn(p) \/ (\E i \in 1 .. Len(acc) : acc[i] = p)
    THEN acc
    ELSE free_walk(L, Field(L, p, OffNextFree), Append(acc, p))

\* The block layout: every block of the block list from m_first with its
\* stored size (state bit included), the free sublist, first_free, and the
\* live-byte counter.
Layout(L, first) ==
    LET bs == block_walk(L, first, <<>>)
    IN  [blocks     |-> [i \in 1 .. Len(bs) |-> <<bs[i], Field(L, bs[i], OffSize)>>],
         free       |-> free_walk(L, L.first_free, <<>>),
         first_free |-> L.first_free,
         allocated  |-> L.allocated]

Range(f) == {f[i] : i \in DOMAIN f}

----------------------------------------------------------------------------
(* Claims. *)

\* C1: allocate(requested_size) returns null or a pointer whose
\* allocation_size is at least requested_size, for every requested_size of
\* the size type, those for which requested_size + header size wraps included.
C1_PayloadAtLeastRequested ==
    (op.kind = "allocate" /\ op.ret # 0 /\ status = "ok")
        => allocation_size(Cur, op.ret) >= op.arg

\* C3: whenever no allocation is live, the block list is exactly one Free
\* block (state bit 0) whose size is size(), alone on the free sublist, and
\* allocated() is 0.
C3_AllFreedIsOneFreeBlock ==
    (live = {} /\ status = "ok")
        => Layout(Cur, m_data) =
               [blocks     |-> <<(<<m_data, m_size>>)>>,
                free       |-> <<m_data>>,
                first_free |-> m_data,
                allocated  |-> 0]

\* C4: a successful allocate followed at once by deallocate of the returned
\* pointer restores the block layout and the counter of before the allocate.
\* Stated on every allocate step: deallocating its result gives the layout
\* the step started from.
C4_RoundTripRestoresLayout ==
    [][(op'.kind = "allocate" /\ op'.ret # 0 /\ status' = "ok")
          => Layout(allocator_deallocate(Cur', op'.ret), m_data)
                 = Layout(Cur, m_data)]_vars

\* Live pointers p, q whose blocks are address-adjacent (q's block starts
\* where p's ends).
Adjacent(p, q) ==
    from_data(q) = from_data(p) + size(Cur, from_data(p))

\* C6: deallocating two address-adjacent live allocations gives the same
\* layout in either order.
C6_OrderIndependent ==
    status = "ok" =>
        \A p, q \in live :
            Adjacent(p, q) =>
                Layout(allocator_deallocate(allocator_deallocate(Cur, p), q), m_data)
                    = Layout(allocator_deallocate(allocator_deallocate(Cur, q), p), m_data)

\* Whether the byte ranges [a, b) and [c, d) share a byte.
Overlap(a, b, c, d) == a < b /\ c < d /\ a < d /\ c < b

\* The payload range of live pointer p ends here.
PayloadEnd(p) == p + allocation_size(Cur, p)

\* C2: the payload ranges [p, p + allocation_size(p)) of the live allocations
\* are pairwise disjoint, lie inside the adjusted region, and overlap no
\* header and no free-sublist link field of any other block; no pointer is
\* handed out while it is live.
C2_PayloadsExclusive ==
    status = "ok" =>
        /\ ~op.dup
        /\ \A p \in live :
            /\ m_data <= p
            /\ PayloadEnd(p) <= m_data + m_size
            /\ \A q \in live \ {p} :
                   ~Overlap(p, PayloadEnd(p), q, PayloadEnd(q))
            /\ \A b \in Range(block_walk(Cur, m_data, <<>>)) \ {from_data(p)} :
                   ~Overlap(p, PayloadEnd(p), b, b + HeaderSize)
            /\ \A f \in Range(free_walk(Cur, m_first_free, <<>>)) \ {from_data(p)} :
                   ~Overlap(p, PayloadEnd(p), f + OffNextFree, f + NodeSize)

\* The sum of the true sizes of the blocks behind the pointers of S.
RECURSIVE HeldBytes(_)
HeldBytes(S) ==
    IF S = {} THEN 0
    ELSE LET p == CHOOSE x \in S : TRUE
         IN  size(Cur, from_data(p)) + HeldBytes(S \ {p})

\* C5: allocated() is the sum of the true sizes of the blocks the callers
\* hold; a failed allocate and a null deallocate leave it unchanged.
C5_CounterIsHeldBytes ==
    /\ [](status = "ok" => m_allocated = HeldBytes(live))
    /\ [][((op'.kind = "allocate" /\ op'.ret = 0)
            \/ (op'.kind = "deallocate" /\ op'.arg = 0))
           => m_allocated' = m_allocated]_vars

\* round_up_to_A(requested_size + header_size), as a natural number.
NeedOf(n) == ((n + HeaderSize + Align - 1) \div Align) * Align

\* No block of the free sublist has true size >= the need of request n.
NoFit(n) ==
    \A f \in Range(free_walk(Cur, m_first_free, <<>>)) : size(Cur, f) < NeedOf(n)

\* C7: when no block of the free sublist is large enough for the request,
\* allocate returns null and changes nothing.
C7_FailedAllocateChangesNothing ==
    [][(op'.kind = "allocate" /\ NoFit(op'.arg))
          => /\ op'.ret = 0
             /\ status' = "ok"
             /\ UNCHANGED <<mem, m_first_free, m_allocated, live>>]_vars

\* The adjusted length of the buffer, as an integer (negative when the buffer
\* is shorter than its alignment adjustment).
AdjustedLen == buf.len - alignment(buf.base)

\* Word a lies inside the caller's buffer [base, base + len).
InBuffer(a) == buf.base <= a /\ a + WordSize <= buf.base + buf.len

\* C8: when the adjusted length is smaller than the minimum block size,
\* construction writes nothing outside [base, base + length) and every
\* allocate(n) returns null.
C8_TooSmallRegionIsInert ==
    AdjustedLen < NodeSize =>
        /\ \A a \in Addrs : mem[a] # Uninit => InBuffer(a)
        /\ op.kind = "allocate" => (op.ret = 0 /\ status = "ok")

\* C9: every allocate and every deallocate terminates, requests of size 0
\* included: no walk reaches a block a second time.
C9_CallsTerminate == status # "hang"

\* C10: contains(address) is true exactly for the addresses a with
\* adjusted_base <= a < adjusted_base + size(), the end being an address (the
\* sum in the width of a pointer); adjusted_base + size() itself is outside.
C10_ContainsIsHalfOpen ==
    op.kind = "contains" =>
        /\ op.ret = 1 <=> (m_data <= op.arg /\ op.arg < Mod(m_data + m_size))
        /\ op.arg = Mod(m_data + m_size) => op.ret = 0

\* C10 witness: the last byte of a non-empty adjusted region was asked for
\* and is contained.
C10_Witness ==
    /\ op.kind = "contains"
    /\ m_size > 0
    /\ op.arg = m_data + m_size - 1
    /\ op.ret = 1

\* The blocks of the block list, and the blocks of the free sublist.
Blocks == Range(block_walk(Cur, m_data, <<>>))

FreeBlocks == Range(free_walk(Cur, m_first_free, <<>>))

\* C11: a block is on the free sublist iff the low bit of its stored size is
\* 0, and every block a caller holds has the low bit 1 (requests >= 1).
C11_StateBitIsMembership ==
    status = "ok" =>
        /\ \A b \in Blocks : (b \in FreeBlocks) <=> is_free(Cur, b)
        /\ \A p \in live : ~is_free(Cur, from_data(p))

\* C12: no block of the free sublist has its block-list successor on the
\* free sublist too (requests >= 1).
C12_NoAdjacentFree ==
    status = "ok" =>
        \A b \in Blocks :
            ~(b \in FreeBlocks /\ Field(Cur, b, OffNext) \in FreeBlocks)

\* Whether the addresses of sequence w ascend strictly.
Ascending(w) == \A i \in 1 .. (Len(w) - 1) : w[i] < w[i + 1]

\* C13: the block list and the free sublist are both strictly ascending in
\* address (requests >= 1).
C13_ListsAscend ==
    status = "ok" =>
        /\ Ascending(block_walk(Cur, m_data, <<>>))
        /\ Ascending(free_walk(Cur, m_first_free, <<>>))

\* The blocks whose state bit says Free.
BitFree == {b \in Blocks : is_free(Cur, b)}

\* C14: first_free is null iff no block is free, and otherwise is the free
\* block with the lowest address (requests >= 1).
C14_FirstFreeIsLowest ==
    status = "ok" =>
        /\ (m_first_free = 0) <=> (BitFree = {})
        /\ m_first_free # 0 =>
               /\ m_first_free \in BitFree
               /\ \A b \in BitFree \cup FreeBlocks : m_first_free <= b

\* The sum of the true sizes of the blocks of sequence w.
RECURSIVE SumSizes(_)
SumSizes(w) ==
    IF w = <<>> THEN 0 ELSE size(Cur, Head(w)) + SumSizes(Tail(w))

\* The block list tiles the adjusted region: it starts at the region base,
\* each block ends where its successor starts, the last block ends at the
\* end of the region, and the true sizes sum to size().
Tiles(w) ==
    /\ w # <<>>
    /\ w[1] = m_data
    /\ \A i \in 1 .. (Len(w) - 1) : w[i] + size(Cur, w[i]) = w[i + 1]
    /\ w[Len(w)] + size(Cur, w[Len(w)]) = m_data + m_size
    /\ SumSizes(w) = m_size

LinkedBack(b, fwd, bwd) ==
    Field(Cur, b, fwd) # 0 => Field(Cur, Field(Cur, b, fwd), bwd) = b

\* C16: B.next.prev == B and B.prev.next == B for every block of the block
\* list, no block is its own successor, and F.next_free.prev_free == F and
\* F.prev_free.next_free == F for every block of the free sublist (requests
\* of size 0 included).
C16_DoublyLinked ==
    status = "ok" =>
        /\ \A b \in Blocks :
               /\ LinkedBack(b, OffNext, OffPrev)
               /\ LinkedBack(b, OffPrev, OffNext)
               /\ Field(Cur, b, OffNext) # b
        /\ \A f \in FreeBlocks :
               /\ LinkedBack(f, OffNextFree, OffPrevFree)
               /\ LinkedBack(f, OffPrevFree, OffNextFree)

\* The minimum block size: a header and the two free-sublist links.
MinBlock == NodeSize

\* C17: every block of the block list, free or allocated, has true size >=
\* the minimum block size (requests of size 0 included).
C17_BlocksHoldANode ==
    status = "ok" => \A b \in Blocks : size(Cur, b) >= MinBlock

\* C18: for every base and length given to the constructor, every block's
\* address and true size are multiples of the alignment in every reachable
\* state, and the initial block is Free (stored low bit 0) with true size
\* size().
C18_BlocksAreAligned ==
    status = "ok" =>
        /\ \A b \in Blocks : b % Align = 0 /\ size(Cur, b) % Align = 0
        /\ op.kind = "construct" =>
               (is_free(Cur, m_data) /\ size(Cur, m_data) = m_size)

\* The header allocate chose, for the payload pointer it returned.
Chosen(ret) == from_data(ret)

\* C19: a successful allocate(n) takes the lowest-addressed block of the free
\* sublist whose true size is >= round_up_to_A(n + header_size), leaving no
\* such block free at a lower address, and allocate returns null only if no
\* free block is that large.
C19_FirstFit ==
    [][(op'.kind = "allocate" /\ status' = "ok")
          => IF op'.ret = 0
             THEN NoFit(op'.arg)
             ELSE /\ Chosen(op'.ret) \in FreeBlocks
                  /\ size(Cur, Chosen(op'.ret)) >= NeedOf(op'.arg)
                  /\ \A f \in FreeBlocks :
                         f < Chosen(op'.ret) => size(Cur, f) < NeedOf(op'.arg)]_vars

\* The list state after the step.
CurNext ==
    [mem |-> mem', first_free |-> m_first_free', allocated |-> m_allocated',
     status |-> status']

\* Block p of true size old was split at need: p is Allocated with true size
\* need, and a new Free block of true size old - need at p + need is p's
\* successor in the block list and a block of its own on the free sublist.
WasSplit(p, old, need) ==
    /\ ~is_free(CurNext, p)
    /\ size(CurNext, p) = need
    /\ Field(CurNext, p, OffNext) = p + need
    /\ is_free(CurNext, p + need)
    /\ size(CurNext, p + need) = old - need
    /\ p + need \in Range(free_walk(CurNext, m_first_free', <<>>))
    /\ Len(block_walk(CurNext, m_data, <<>>))
           = Len(block_walk(Cur, m_data, <<>>)) + 1

\* Block p was allocated whole: its size is unchanged and no block was made.
TakenWhole(p, old) ==
    /\ ~is_free(CurNext, p)
    /\ size(CurNext, p) = old
    /\ block_walk(CurNext, m_data, <<>>) = block_walk(Cur, m_data, <<>>)

\* C20: when allocate chooses block p with need = round_up_to_A(n +
\* header_size), p is split iff size(p) - need >= the minimum block size, and
\* is allocated whole otherwise.
C20_SplitRule ==
    [][(op'.kind = "allocate" /\ op'.ret # 0 /\ status' = "ok")
          => IF size(Cur, Chosen(op'.ret)) - NeedOf(op'.arg) >= MinBlock
             THEN WasSplit(Chosen(op'.ret), size(Cur, Chosen(op'.ret)),
                           NeedOf(op'.arg))
             ELSE TakenWhole(Chosen(op'.ret), size(Cur, Chosen(op'.ret)))]_vars

====
